---- MODULE Spec2Model ----
(***************************************************************************)
(* range-parser (src/src/lib.rs): parse / parse_with turn a range          *)
(* expression such as "1-3,5-8" or "-5--1,0-3" into the vector of the      *)
(* values it denotes.                                                      *)
(*                                                                         *)
(* Text is modelled as a sequence of one-character strings, so that        *)
(* splitting, trimming, sign reconstruction and decimal parsing are        *)
(* computed on characters as the code computes them.  The numeric type T   *)
(* is a signed two's complement integer of Width bits.                     *)
(***************************************************************************)
EXTENDS Integers, Sequences, FiniteSets, TLC

VARIABLES
    fn,               \* the entry point called: "parse" or "parse_with"
    range_str,        \* argument range_str
    value_separator,  \* argument value_separator of parse_with (<<>> for parse)
    range_separator,  \* argument range_separator of parse_with (<<>> for parse)
    pc,               \* position of the call
    parts,            \* the parts the `for part in range_str.split(..)` loop has still to visit
    part,             \* the part last handed to parse_part
    sep,              \* parameter range_separator of parse_part / parse_value_range
    acc,              \* the Vec `range` / `acc`
    x,                \* the running value of the expansion loop
    end,              \* the end of the range being expanded
    error             \* the RangeError returned

vars == <<fn, range_str, value_separator, range_separator, pc, parts, part, sep,
          acc, x, end, error>>

-----------------------------------------------------------------------------
(* Bounds of the model *)

\* width in bits of the integer type T the call is instantiated with
Width == 3
\* largest number of parts of a generated list input
MaxParts == 3
\* largest number of fragments of a generated single-part input
MaxFrags == 5

-----------------------------------------------------------------------------
(* The numeric type T *)

MinT == -(2 ^ (Width - 1))
MaxT == (2 ^ (Width - 1)) - 1
T == MinT .. MaxT

\* T::unit(): the value added per step of a range
Unit == 1

\* two's complement wrap-around of an arithmetic result to Width bits
Wrap(v) == ((v - MinT) % (2 ^ Width)) + MinT

\* the number of elements the Vec can hold before an allocation fails
Capacity == 2 * (MaxT - MinT + 1)

-----------------------------------------------------------------------------
(* Text *)

DigitChars == <<"0", "1", "2", "3", "4", "5", "6", "7", "8", "9">>
Digits == {DigitChars[i] : i \in DOMAIN DigitChars}
DigitVal(c) == (CHOOSE i \in DOMAIN DigitChars : DigitChars[i] = c) - 1
Whitespace == {" ", "\t", "\n"}

\* pat occurs in s at position i
MatchAt(s, pat, i) ==
    /\ i + Len(pat) - 1 <= Len(s)
    /\ \A k \in 1 .. Len(pat) : s[i + k - 1] = pat[k]

\* str::contains
Contains(s, pat) == \E i \in 1 .. Len(s) : MatchAt(s, pat, i)

\* str::split on a literal, non-empty pattern: the pieces between the
\* non-overlapping occurrences of pat, found left to right
RECURSIVE Split(_, _)
Split(s, pat) ==
    IF ~Contains(s, pat)
    THEN <<s>>
    ELSE LET i == CHOOSE j \in 1 .. Len(s) :
                      /\ MatchAt(s, pat, j)
                      /\ \A k \in 1 .. (j - 1) : ~MatchAt(s, pat, k)
         IN  <<SubSeq(s, 1, i - 1)>> \o Split(SubSeq(s, i + Len(pat), Len(s)), pat)

RECURSIVE TrimStart(_)
TrimStart(s) ==
    IF s # <<>> /\ Head(s) \in Whitespace THEN TrimStart(Tail(s)) ELSE s

RECURSIVE TrimEnd(_)
TrimEnd(s) ==
    IF s # <<>> /\ s[Len(s)] \in Whitespace
    THEN TrimEnd(SubSeq(s, 1, Len(s) - 1))
    ELSE s

\* str::trim
Trim(s) == TrimEnd(TrimStart(s))

RECURSIVE DecimalValue(_)
DecimalValue(ds) ==
    IF ds = <<>> THEN 0
    ELSE 10 * DecimalValue(SubSeq(ds, 1, Len(ds) - 1)) + DigitVal(ds[Len(ds)])

\* <T as FromStr>::from_str for a signed integer: an optional sign, then one
\* or more decimal digits, the value within T
FromStr(s) ==
    LET signed == s # <<>> /\ s[1] \in {"+", "-"}
        ds     == IF signed THEN Tail(s) ELSE s
    IN  IF ds = <<>> \/ \E i \in 1 .. Len(ds) : ds[i] \notin Digits
        THEN [ok |-> FALSE, v |-> 0]
        ELSE LET n == DecimalValue(ds)
                 v == IF s[1] = "-" THEN -n ELSE n
             IN  IF v \in T THEN [ok |-> TRUE, v |-> v] ELSE [ok |-> FALSE, v |-> 0]

-----------------------------------------------------------------------------
(* RangeError *)

NoError == [kind |-> "none", text |-> <<>>]
InvalidRangeSyntax(s) == [kind |-> "InvalidRangeSyntax", text |-> s]
NotANumber(s) == [kind |-> "NotANumber", text |-> s]
SeparatorsMustBeDifferent == [kind |-> "SeparatorsMustBeDifferent", text |-> <<>>]
StartBiggerThanEnd(s) == [kind |-> "StartBiggerThanEnd", text |-> s]

-----------------------------------------------------------------------------
(* parse_as_t, and the arms of parse_value_range *)

\* parse_as_t: trim, parse, and name the untrimmed argument on failure
ParseAsT(s) ==
    LET r == FromStr(Trim(s))
    IN  IF r.ok THEN [ok |-> TRUE, v |-> r.v, err |-> NoError]
                ELSE [ok |-> FALSE, v |-> 0, err |-> NotANumber(s)]

\* the sign forgotten when the number is put together again
NegatedWithoutSign(fragment) == fragment

\* format!("-{}", fragment)
Negated(fragment) == <<"-">> \o fragment

\* the guard with its operands the wrong way round
StartIsSmaller(start, e) == start < e

\* the guard `start > end`
StartIsBigger(start, e) == start > e

\* the outcome of a part: one value, a validated pair, or an error
Value(v) == [tag |-> "value", v |-> v, start |-> 0, end |-> 0, err |-> NoError]
Pair(s, e) == [tag |-> "range", v |-> 0, start |-> s, end |-> e, err |-> NoError]
Failure(err) == [tag |-> "err", v |-> 0, start |-> 0, end |-> 0, err |-> err]

\* `let start: T = parse_as_t(..)?; let end: T = parse_as_t(..)?; (start, end)`
\* followed by the check of start against end
ResolvePair(startText, endText, p) ==
    LET s == ParseAsT(startText)
        e == ParseAsT(endText)
    IN  IF ~s.ok THEN Failure(s.err)
        ELSE IF ~e.ok THEN Failure(e.err)
        ELSE IF StartIsBigger(s.v, e.v) THEN Failure(StartBiggerThanEnd(p))
        ELSE Pair(s.v, e.v)

\* arm `2 if parts[0].is_empty()`
NegativeNumber(fs) ==
    LET r == ParseAsT(Negated(fs[2]))
    IN  IF r.ok THEN Value(r.v) ELSE Failure(r.err)

\* arm `2`
TwoPositive(fs, p) == ResolvePair(fs[1], fs[2], p)

\* arm `3 if parts[0].is_empty()`
StartNegative(fs, p) == ResolvePair(Negated(fs[2]), fs[3], p)

\* arm `3` answering as arm `_` does
ThreeFragmentsInvalidSyntax(p) == InvalidRangeSyntax(p)

\* arm `3`
ThreeFragmentsError(p) == StartBiggerThanEnd(p)

\* arm `4`
BothNegative(fs, p) == ResolvePair(Negated(fs[2]), Negated(fs[4]), p)

\* arm `_`
OtherCountError(p) == InvalidRangeSyntax(p)

\* the arm of `match parts.len()` that fragments fs select
Arm(fs) ==
    CASE Len(fs) = 2 /\ fs[1] = <<>> -> "negative_number"
      [] Len(fs) = 2 /\ fs[1] # <<>> -> "two_positive"
      [] Len(fs) = 3 /\ fs[1] = <<>> -> "start_negative"
      [] Len(fs) = 3 /\ fs[1] # <<>> -> "three"
      [] Len(fs) = 4 -> "both_negative"
      [] OTHER -> "other"

\* parse_value_range up to the expansion loop
ParseValueRange(p, rs) ==
    LET fs == Split(p, rs)
    IN  CASE Arm(fs) = "negative_number" -> NegativeNumber(fs)
          [] Arm(fs) = "two_positive" -> TwoPositive(fs, p)
          [] Arm(fs) = "start_negative" -> StartNegative(fs, p)
          [] Arm(fs) = "three" -> Failure(ThreeFragmentsError(p))
          [] Arm(fs) = "both_negative" -> BothNegative(fs, p)
          [] OTHER -> Failure(OtherCountError(p))

\* the test of the separators left out
SeparatorsUnchecked(vs, rs) == FALSE

\* the test of parse_with on its two separators
SeparatorsEqual(vs, rs) == vs = rs

\* a push that keeps the vector free of duplicates
PushIfAbsent(v, e) == IF \E i \in DOMAIN v : v[i] = e THEN v ELSE Append(v, e)

\* Vec::push
Push(v, e) == Append(v, e)

-----------------------------------------------------------------------------
(* The inputs of a call *)

RECURSIVE NatToString(_)
NatToString(n) ==
    IF n < 10 THEN <<DigitChars[n + 1]>>
    ELSE NatToString(n \div 10) \o <<DigitChars[(n % 10) + 1]>>

\* the decimal text of a value of T
Display(v) == IF v < 0 THEN <<"-">> \o NatToString(-v) ELSE NatToString(v)

RECURSIVE Join(_, _)
Join(ss, s) ==
    IF Len(ss) = 0 THEN <<>>
    ELSE IF Len(ss) = 1 THEN ss[1]
    ELSE ss[1] \o s \o Join(Tail(ss), s)

\* s with a blank before it (l) and after it (r)
Padded(s, l, r) ==
    (IF l THEN <<" ">> ELSE <<>>) \o s \o (IF r THEN <<" ">> ELSE <<>>)

DefaultValueSeparator == <<",">>
DefaultRangeSeparator == <<"-">>
ValueSeparators == {<<";">>, <<"-">>}
RangeSeparators == {<<".", ".">>, <<"-">>}

\* one part made of up to MaxFrags short fragments
FragmentTexts == {<<>>, <<"1">>, <<"2">>, <<"x">>}
FragmentParts(rs) ==
    {Join(f, rs) : f \in UNION {[1 .. k -> FragmentTexts] : k \in 1 .. MaxFrags}}

\* one value of T, or two joined by the range separator, each padded or not
PaddedValues == {Padded(Display(v), l, r) : v \in T, l \in BOOLEAN, r \in BOOLEAN}
PaddedPairs(rs) == {p \o rs \o q : p \in PaddedValues, q \in PaddedValues}

\* lists of up to MaxParts parts: small values, their ascending ranges, and
\* a part that is no number
SmallValues == {-1, 0, 1}
ListParts(rs) ==
    {Display(v) : v \in SmallValues}
        \cup {Display(ab[1]) \o rs \o Display(ab[2]) :
                 ab \in {cd \in SmallValues \X SmallValues : cd[1] <= cd[2]}}
        \cup {<<"x">>}
Lists(vs, rs) ==
    {Join(ps, vs) : ps \in UNION {[1 .. k -> ListParts(rs)] : k \in 2 .. MaxParts}}

Inputs(vs, rs) ==
    FragmentParts(rs) \cup PaddedValues \cup PaddedPairs(rs) \cup Lists(vs, rs)

-----------------------------------------------------------------------------
(* The state machine *)

Init ==
    /\ fn \in {"parse", "parse_with"}
    /\ IF fn = "parse"
       THEN /\ value_separator = <<>>
            /\ range_separator = <<>>
            /\ range_str \in Inputs(DefaultValueSeparator, DefaultRangeSeparator)
       ELSE /\ value_separator \in ValueSeparators
            /\ range_separator \in RangeSeparators
            /\ range_str \in Inputs(value_separator, range_separator)
    /\ pc = "call"
    /\ parts = <<>>
    /\ part = <<>>
    /\ sep = <<>>
    /\ acc = <<>>
    /\ x = 0
    /\ end = 0
    /\ error = NoError

\* parse: split on ',' and hand every part to parse_part with "-"
Parse ==
    /\ pc = "call"
    /\ fn = "parse"
    /\ parts' = Split(range_str, DefaultValueSeparator)
    /\ sep' = DefaultRangeSeparator
    /\ pc' = "parts"
    /\ UNCHANGED <<fn, range_str, value_separator, range_separator, part, acc, x,
                   end, error>>

\* parse_with called with twice the same separator
ParseWithSameSeparators ==
    /\ pc = "call"
    /\ fn = "parse_with"
    /\ SeparatorsEqual(value_separator, range_separator)
    /\ pc' = "err"
    /\ error' = SeparatorsMustBeDifferent
    /\ UNCHANGED <<fn, range_str, value_separator, range_separator, parts, part,
                   sep, acc, x, end>>

\* parse_with: split on value_separator and hand every part to parse_part
ParseWith ==
    /\ pc = "call"
    /\ fn = "parse_with"
    /\ ~SeparatorsEqual(value_separator, range_separator)
    /\ parts' = Split(range_str, value_separator)
    /\ sep' = range_separator
    /\ pc' = "parts"
    /\ UNCHANGED <<fn, range_str, value_separator, range_separator, part, acc, x,
                   end, error>>

\* what parse_part does with the outcome o of part p: push the value, start
\* the expansion of the pair, or return the error (dropping the vector)
Deliver(p, o) ==
    /\ part' = p
    /\ parts' = Tail(parts)
    /\ pc' = CASE o.tag = "value" -> "parts"
               [] o.tag = "range" -> "loop"
               [] OTHER -> "err"
    /\ acc' = CASE o.tag = "value" -> Push(acc, o.v)
                [] o.tag = "range" -> acc
                [] OTHER -> <<>>
    /\ x' = IF o.tag = "range" THEN o.start ELSE x
    /\ end' = IF o.tag = "range" THEN o.end ELSE end
    /\ error' = o.err
    /\ UNCHANGED <<fn, range_str, value_separator, range_separator, sep>>

\* parse_part on a part without the range separator
ParsePartValue ==
    /\ pc = "parts"
    /\ parts # <<>>
    /\ ~Contains(Head(parts), sep)
    /\ LET r == ParseAsT(Head(parts))
       IN  Deliver(Head(parts), IF r.ok THEN Value(r.v) ELSE Failure(r.err))

\* parse_part has a part with the range separator to hand to
\* parse_value_range, whose match takes the arm named
AtArm(name) ==
    /\ pc = "parts"
    /\ parts # <<>>
    /\ Contains(Head(parts), sep)
    /\ Arm(Split(Head(parts), sep)) = name

\* parse_value_range, arm `2 if parts[0].is_empty()`
ArmNegativeNumber ==
    /\ AtArm("negative_number")
    /\ Deliver(Head(parts), ParseValueRange(Head(parts), sep))

\* parse_value_range, arm `2`
ArmTwoPositive ==
    /\ AtArm("two_positive")
    /\ Deliver(Head(parts), ParseValueRange(Head(parts), sep))

\* parse_value_range, arm `3 if parts[0].is_empty()`
ArmStartNegative ==
    /\ AtArm("start_negative")
    /\ Deliver(Head(parts), ParseValueRange(Head(parts), sep))

\* parse_value_range, arm `3`
ArmThree ==
    /\ AtArm("three")
    /\ Deliver(Head(parts), ParseValueRange(Head(parts), sep))

\* parse_value_range, arm `4`
ArmBothNegative ==
    /\ AtArm("both_negative")
    /\ Deliver(Head(parts), ParseValueRange(Head(parts), sep))

\* parse_value_range, arm `_`
ArmOther ==
    /\ AtArm("other")
    /\ Deliver(Head(parts), ParseValueRange(Head(parts), sep))

\* one turn of `while x <= end`: push x, add the unit
LoopPush ==
    /\ pc = "loop"
    /\ x <= end
    /\ Len(acc) < Capacity
    /\ x + Unit <= MaxT
    /\ acc' = Push(acc, x)
    /\ x' = x + Unit
    /\ UNCHANGED <<fn, range_str, value_separator, range_separator, pc, parts,
                   part, sep, end, error>>

\* the turn whose addition overflows T, built with overflow checks: a panic
LoopOverflowPanic ==
    /\ pc = "loop"
    /\ x <= end
    /\ Len(acc) < Capacity
    /\ x + Unit > MaxT
    /\ acc' = Push(acc, x)
    /\ pc' = "panic"
    /\ UNCHANGED <<fn, range_str, value_separator, range_separator, parts, part,
                   sep, x, end, error>>

\* the turn whose addition overflows T, built without overflow checks: it wraps
LoopOverflowWrap ==
    /\ pc = "loop"
    /\ x <= end
    /\ Len(acc) < Capacity
    /\ x + Unit > MaxT
    /\ acc' = Push(acc, x)
    /\ x' = Wrap(x + Unit)
    /\ UNCHANGED <<fn, range_str, value_separator, range_separator, pc, parts,
                   part, sep, end, error>>

\* the push for which no memory is left: the process aborts
LoopAbort ==
    /\ pc = "loop"
    /\ x <= end
    /\ Len(acc) >= Capacity
    /\ pc' = "abort"
    /\ UNCHANGED <<fn, range_str, value_separator, range_separator, parts, part,
                   sep, acc, x, end, error>>

\* `while x <= end` is over: back to the loop over the parts
LoopExit ==
    /\ pc = "loop"
    /\ x > end
    /\ pc' = "parts"
    /\ x' = 0
    /\ end' = 0
    /\ UNCHANGED <<fn, range_str, value_separator, range_separator, parts, part,
                   sep, acc, error>>

\* every part is done: Ok(range)
Return ==
    /\ pc = "parts"
    /\ parts = <<>>
    /\ pc' = "ok"
    /\ UNCHANGED <<fn, range_str, value_separator, range_separator, parts, part,
                   sep, acc, x, end, error>>

Next ==
    \/ Parse
    \/ ParseWithSameSeparators
    \/ ParseWith
    \/ ParsePartValue
    \/ ArmNegativeNumber
    \/ ArmTwoPositive
    \/ ArmStartNegative
    \/ ArmThree
    \/ ArmBothNegative
    \/ ArmOther
    \/ LoopPush
    \/ LoopOverflowPanic
    \/ LoopOverflowWrap
    \/ LoopAbort
    \/ LoopExit
    \/ Return

Spec == Init /\ [][Next]_vars

-----------------------------------------------------------------------------
(* Vocabulary of the properties *)

\* the inclusive ascending unit-step sequence a, a+1, ..., b
Ascending(a, b) == [i \in 1 .. (b - a + 1) |-> a + (i - 1)]

\* the text "<a>-<b>"
Dashed(a, b) == Display(a) \o <<"-">> \o Display(b)

\* t occurs in s as a contiguous piece
IsPieceOf(t, s) == \E i \in 1 .. (Len(s) + 1) : MatchAt(s, t, i)

\* the fragments of the part last handed to parse_part
Fragments == Split(part, sep)

\* the separators in effect for the call
ValueSeparatorUsed == IF fn = "parse" THEN DefaultValueSeparator ELSE value_separator
RangeSeparatorUsed == IF fn = "parse" THEN DefaultRangeSeparator ELSE range_separator

\* the result of part p on its own: its value, or the expansion of its pair
OwnResult(p, rs) ==
    IF ~Contains(p, rs)
    THEN <<ParseAsT(p).v>>
    ELSE LET o == ParseValueRange(p, rs)
         IN  IF o.tag = "value"
             THEN <<o.v>>
             ELSE [i \in 1 .. (((o.end - o.start) \div Unit) + 1) |->
                      o.start + ((i - 1) * Unit)]

RECURSIVE Concatenation(_, _)
Concatenation(ps, rs) ==
    IF ps = <<>> THEN <<>> ELSE OwnResult(Head(ps), rs) \o Concatenation(Tail(ps), rs)

-----------------------------------------------------------------------------
(* The properties *)

\* C1: for all a <= b of T, parse of "<a>-<b>" succeeds and returns exactly
\* a, a+1, ..., b, of length b - a + 1: the call never fails, never crashes,
\* never pushes more than that, and what it returns is that sequence.
C1_DashedPairExpands ==
    \A a \in T : \A b \in T :
        (a <= b /\ fn = "parse" /\ range_str = Dashed(a, b))
            => /\ pc \notin {"err", "panic", "abort"}
               /\ Len(acc) <= b - a + 1
               /\ pc = "ok" => acc = Ascending(a, b)

\* C2: for every value v of T, negative ones included, parse of its text
\* returns <<v>>; and a part of exactly 2 fragments whose first is empty gives
\* one number, the negation sign put back before fragment 2, and is never
\* expanded as a range.
C2_SingleValue ==
    /\ \A v \in T :
           (fn = "parse" /\ range_str = Display(v))
               => /\ pc \notin {"err", "loop", "panic", "abort"}
                  /\ pc = "ok" => acc = <<v>>
    /\ (Contains(part, sep) /\ Len(Fragments) = 2 /\ Fragments[1] = <<>>)
           => /\ pc \in {"parts", "ok", "err"}
              /\ pc \in {"parts", "ok"}
                     => /\ acc # <<>>
                        /\ FromStr(Trim(<<"-">> \o Fragments[2])).ok
                        /\ acc[Len(acc)] = FromStr(Trim(<<"-">> \o Fragments[2])).v
                        /\ acc[Len(acc)] <= 0

\* C2 witness: the text of the least value of T, which starts with the range
\* separator, has been parsed to that one value.
C2_Witness ==
    /\ fn = "parse"
    /\ range_str = Display(MinT)
    /\ Head(range_str) = "-"
    /\ pc = "ok"
    /\ acc = <<MinT>>

\* C3: for all a > b of T, parse of "<a>-<b>" fails with StartBiggerThanEnd
\* carrying the text of the part as written; nothing is pushed or returned.
C3_StartBiggerThanEnd ==
    \A a \in T : \A b \in T :
        (a > b /\ fn = "parse" /\ range_str = Dashed(a, b) /\ pc # "call")
            => /\ pc \in {"parts", "err"}
               /\ acc = <<>>
               /\ pc = "parts" => parts = <<range_str>>
               /\ pc = "err" => error = StartBiggerThanEnd(range_str)

\* C3 witness: a pair of two negative values, the start the bigger, has been
\* refused (the text of the part has 4 fragments and differs from the
\* reconstructed "-<a>", "-<b>").
C3_Witness ==
    \E a \in T : \E b \in T :
        /\ b < a
        /\ a < 0
        /\ fn = "parse"
        /\ range_str = Dashed(a, b)
        /\ pc = "err"
        /\ error = StartBiggerThanEnd(range_str)

\* C4 as claimed: a part of 3 fragments whose first is not empty makes the
\* call fail with InvalidRangeSyntax naming the part.
C4_TripleDashInvalidSyntax ==
    (Contains(part, sep) /\ Len(Fragments) = 3 /\ Fragments[1] # <<>>)
        => /\ pc = "err"
           /\ error = InvalidRangeSyntax(part)

\* C4 as amended: a part of 3 fragments whose first is not empty makes the
\* call fail with StartBiggerThanEnd naming the part.
C4_TripleDashStartBiggerThanEnd ==
    (Contains(part, sep) /\ Len(Fragments) = 3 /\ Fragments[1] # <<>>)
        => /\ pc = "err"
           /\ acc = <<>>
           /\ error = StartBiggerThanEnd(part)

\* C4 witness: parse of "1-2-2", three ascending numbers, has failed.
C4_Witness ==
    /\ fn = "parse"
    /\ range_str = <<"1", "-", "2", "-", "2">>
    /\ part = range_str
    /\ pc = "err"

\* C5: blanks before or after a value, or before or after either bound of a
\* range, change nothing: when the plain text returns a sequence (the value,
\* or a, ..., b), the call on the padded text returns that sequence too.
C5_WhitespaceTolerance ==
    (fn = "parse" /\ pc \in {"ok", "err"})
        => /\ \A v \in T : \A l \in BOOLEAN : \A r \in BOOLEAN :
                  range_str = Padded(Display(v), l, r)
                      => (pc = "ok" /\ acc = <<v>>)
           /\ \A a \in T : \A b \in T :
                  (a <= b /\ b + Unit <= MaxT)
                      => \A la \in BOOLEAN : \A ra \in BOOLEAN :
                         \A lb \in BOOLEAN : \A rb \in BOOLEAN :
                             range_str = Padded(Display(a), la, ra) \o <<"-">>
                                             \o Padded(Display(b), lb, rb)
                                 => (pc = "ok" /\ acc = Ascending(a, b))

\* C6: on success the output is the concatenation, in the order of the
\* parts, of each part's own result: nothing is sorted, nothing is dropped.
C6_ConcatenationInOrder ==
    pc = "ok"
        => acc = Concatenation(Split(range_str, ValueSeparatorUsed), RangeSeparatorUsed)

\* C6 witness: parse of "1,-1-1,0" has returned 1, -1, 0, 1, 0: a range
\* between two values, out of order, with 0 and 1 twice.
C6_Witness ==
    /\ fn = "parse"
    /\ range_str = <<"1", ",", "-", "1", "-", "1", ",", "0">>
    /\ pc = "ok"
    /\ acc = <<1, -1, 0, 1, 0>>

\* C7: parse_with given twice the same separator fails with
\* SeparatorsMustBeDifferent whatever the input: nothing has been split,
\* handed to parse_part or pushed.
C7_SeparatorCollision ==
    (fn = "parse_with" /\ value_separator = range_separator)
        => /\ pc \in {"call", "err"}
           /\ parts = <<>>
           /\ part = <<>>
           /\ acc = <<>>
           /\ pc = "err" => error = SeparatorsMustBeDifferent

\* C7 witness: parse_with("1-2-x", "-", "-"), whose text holds a part that
\* is no number, has failed with SeparatorsMustBeDifferent.
C7_Witness ==
    /\ fn = "parse_with"
    /\ value_separator = <<"-">>
    /\ range_separator = <<"-">>
    /\ range_str = <<"1", "-", "2", "-", "x">>
    /\ pc = "err"
    /\ error = SeparatorsMustBeDifferent

\* C8: a NotANumber error carries text of the input as written: the whole
\* part when the part is a single value, a contiguous piece of the part when
\* it is a bound, whatever the range separator.
C8_NotANumberNamesInputText ==
    (pc = "err" /\ error.kind = "NotANumber")
        => /\ ~Contains(part, sep) => error.text = part
           /\ IsPieceOf(error.text, part)

\* C9: the expansion loop terminates, because every turn of it leaves the
\* running value strictly bigger, and no bigger than one unit past the end.
C9_ExpansionTerminates ==
    [][(pc = "loop" /\ pc' = "loop") => (x' > x /\ x' <= end + Unit)]_vars

\* C10: a part of 4 fragments that is accepted (expanded, or being expanded)
\* has the shape -A--B: its fragments 0 and 2 are empty (blanks, which the
\* claim on whitespace tolerates, are let through here).
C10_FourFragmentsBothNegative ==
    (pc \in {"loop", "parts", "ok"} /\ Contains(part, sep) /\ Len(Fragments) = 4)
        => /\ Trim(Fragments[1]) = <<>>
           /\ Trim(Fragments[3]) = <<>>

====
